---------------------------- MODULE Spec2Model ----------------------------
(***************************************************************************)
(* A model of the MVVM binding framework (mvvm.py) and of the calculator   *)
(* view model built on it (Clac_Ironpython.py).                            *)
(*                                                                         *)
(*   SpecBus        the _Messenger: send / subscribe / unsubscribe, the    *)
(*                  timer tick _execute, WeakCallable and its collection   *)
(*                  callback, interleaved at the granularity of the lock.  *)
(*   SpecSingleton  _Messenger.instance() called from several threads.     *)
(*   SpecNotify     the Notifiable descriptor on a ViewModel.              *)
(*   SpecCommand    the command descriptor and the Command it caches.      *)
(*   SpecCalc       MyViewModel.addDigitCommand / operatorCommand.         *)
(*   SpecLate       the bus with the history of when each message was sent *)
(*                  (subscriptions made between a send and its tick).      *)
(*   SpecUnsub      the bus with the history of the unsubscribe calls.     *)
(*   SpecReentrant  the bus with handlers that connect or emit when they   *)
(*                  are invoked, under fair scheduling of the threads.     *)
(*   SpecAccessor   the notifiable accessor (getter / setter pair).        *)
(*   SpecList       List, the ObservableCollection with list methods.      *)
(***************************************************************************)
EXTENDS Integers, Sequences, FiniteSets, TLC

VARIABLES
    \* ---- _Messenger (the message bus) ----
    subscribers,    \* _Messenger._subscribers: defaultdict topic -> list of WeakCallable
    messages,       \* _Messenger._messages: the Queue of (message, args)
    lock,           \* _Messenger._lock: who holds it ("free" when nobody)
    tick,           \* the timer callback _execute: [pc, cur, idx]
    tickResult,     \* the exception that left the last _execute: "none" | "error"
    calls,          \* handler invocations made for the message being dispatched
    alive,          \* handler -> whether its receiver object is still reachable
    behaviour,      \* handler -> what its body does when invoked:
                    \* "ok" | "raise" | "emit" | "connect"
    pendingCollect, \* WeakCallables whose weakref callback is still to run
    gc,             \* the thread running WeakCallable._on_collect: [pc, ref]
    mut,            \* a thread inside subscribe / unsubscribe: [pc, topic, h]
    mutResult,      \* the exception that left its last call: "none" | "ValueError"
    nsub,           \* WeakCallables created by subscribe so far (their identities)
    sendRaised,     \* whether the last send raised
    sentAt,         \* history, kept by SpecLate only: nsub when each queued message was sent
    curAt,          \* history, kept by SpecLate only: nsub when the message in dispatch was sent
    unsubscribed,   \* history, kept by SpecUnsub only: the <<topic, handler>> pairs for which
                    \* unsubscribe was called while the handler had an entry in the list
    \* ---- _Messenger.instance() ----
    instance,       \* _Messenger._instance (0 is None)
    created,        \* number of _Messenger objects constructed
    ipc,            \* thread -> position inside instance()
    ret,            \* thread -> the object its last instance() call returned (0: none yet)
    \* ---- ViewModel / Notifiable / MyViewModel ----
    slots,          \* property -> the instance attribute __notifiable_<name> (Unset if absent)
    listeners,      \* ViewModel.property_chaged_handlers (the handlers are 1..listeners)
    raised,         \* handler calls made by RaisePropertyChanged during the last operation
    lastOp,         \* the last operation and what it was given
    outputNumber,   \* MyViewModel.outputNumber, a Fraction <<numerator, denominator>>
    prevOperator,   \* MyViewModel.prevOperator
    cmdError,       \* the exception the last command let escape ("none" if none)
    keys,           \* the calculator commands executed so far: <<command, parameter>>
    coll,           \* a List (ObservableCollection): its items, in order
    lastList,       \* the last call on the List and what it was given
    \* ---- command / Command ----
    cache,          \* descriptor -> command._command, a Command's identity (0 is None)
    cmds,           \* the Command objects constructed so far, by identity
    got,            \* descriptor -> instance -> the Commands __get__ returned for it
    lastExec        \* the last __get__ / Execute / CanExecute: who asked, who received

busVars == <<subscribers, messages, lock, tick, tickResult, calls, alive, behaviour,
             pendingCollect, gc, mut, mutResult, nsub, sendRaised, sentAt, curAt,
             unsubscribed>>
histVars == <<sentAt, curAt, unsubscribed>>
sgVars  == <<instance, created, ipc, ret>>
listVars == <<coll, lastList>>
vmVars  == <<slots, listeners, raised, lastOp, outputNumber, prevOperator, cmdError, keys,
             listVars>>
cmdVars == <<cache, cmds, got, lastExec>>
vars    == <<busVars, sgVars, vmVars, cmdVars>>

-----------------------------------------------------------------------------
(* Bounds of the model *)

MaxQueue == 2       \* messages waiting in the queue
MaxSubs  == 2       \* subscribe calls in one behaviour
NThreads == 3       \* threads that call _Messenger.instance()
MaxCommands == 3    \* Command objects constructed in one behaviour
MaxListeners == 2   \* handlers added to PropertyChanged
MaxSteps == 5       \* calculator commands in one behaviour
MaxItems == 4       \* items in the List
MaxSeq == 2         \* items in the sequence given to List.extend

-----------------------------------------------------------------------------
(* The message bus: mvvm.py, WeakCallable and _Messenger *)

Topics   == {"t1", "t2"}          \* message keys (Signal objects)
Handlers == {"h1", "h2"}          \* bound methods, each of its own receiver object
Args     == {"x", "y"}            \* what send is given to pass on
Publishers == {"ui", "worker"}    \* threads that call send
Sendable == {<<"t1", "x">>, <<"t1", "y">>, <<"t2", "x">>}   \* what they send
DispatchThread == "ui"            \* the thread the DispatcherTimer raises Tick on

NoMsg  == [topic |-> "none", arg |-> "none"]
TickIdle == [pc |-> "idle", cur |-> NoMsg, idx |-> 0]
MutIdle  == [pc |-> "idle", topic |-> "none", h |-> "none"]
GcIdle   == [pc |-> "idle", ref |-> 0]

\* Queue(): maxsize 0, an unbounded queue
QueueMaxsize == 0

\* Queue.put(item, False): raises Full only when a positive maxsize is reached
QueuePut(q, item) ==
    IF QueueMaxsize > 0 /\ Len(q) >= QueueMaxsize
    THEN [raised |-> TRUE, q |-> q]
    ELSE [raised |-> FALSE, q |-> Append(q, item)]

\* a queue that hands out the newest item
QueueGetLast(q) == [item |-> q[Len(q)], q |-> SubSeq(q, 1, Len(q) - 1)]

\* Queue.get(False) on a queue that is not empty: the oldest item leaves the queue
QueueGet(q) == [item |-> Head(q), q |-> Tail(q)]

\* a plain dict in its place: a topic with no list raises KeyError
DictGetPlain(d, k) == [raised |-> d[k] = <<>>, list |-> d[k]]

\* defaultdict(list).__getitem__: a key never stored reads as an empty list and
\* never raises KeyError (subscribers maps every topic, to <<>> until it is used)
DictGet(d, k) == [raised |-> FALSE, list |-> d[k]]

\* WeakCallable(func, on_collect): a new object (ref is its identity) holding weak
\* references to the receiver and the function of the bound method h
WeakCallable(id, h, onCollect) == [ref |-> id, h |-> h, onCollect |-> onCollect]

\* a wrapper that serves only the messages sent after it was subscribed
WeakCallAsOfSend(w, live, behav) ==
    IF w.ref > curAt THEN "ReferenceError"
    ELSE IF live[w.h] THEN behav[w.h] ELSE "ReferenceError"

\* a wrapper that turns every failure of the handler into "target unavailable"
WeakCallSwallow(w, live, behav) ==
    IF live[w.h] /\ behav[w.h] = "ok" THEN "ok" ELSE "ReferenceError"

\* a wrapper that calls the dead and skips the living
WeakCallInverted(w, live, behav) ==
    IF ~live[w.h] THEN behav[w.h] ELSE "ReferenceError"

\* WeakCallable.__call__: the outcome of calling the wrapper:
\* "ReferenceError" when the receiver is gone, else what the handler's body does
WeakCall(w, live, behav) ==
    IF live[w.h] THEN behav[w.h] ELSE "ReferenceError"

\* wrappers that are equal when they wrap the same bound method
WeakEqByHandler(a, b) == a.h = b.h

\* WeakCallable has no __eq__: two wrappers are equal only when they are one object
WeakEq(a, b) == a.ref = b.ref

\* x in list
ListContains(L, x) == \E i \in 1..Len(L) : WeakEq(L[i], x)

\* list.remove(x): drops the first item equal to x (the caller checks it is there)
ListRemove(L, x) ==
    LET i == CHOOSE j \in 1..Len(L) :
                 WeakEq(L[j], x) /\ \A k \in 1..(j-1) : ~WeakEq(L[k], x)
    IN  SubSeq(L, 1, i-1) \o SubSeq(L, i+1, Len(L))

\* an append that keeps one wrapper per handler
ListAppendUnique(L, w) ==
    IF \E i \in 1..Len(L) : L[i].h = w.h THEN L ELSE Append(L, w)

\* list.append(w): the list grows by w, whatever it holds already
ListAppend(L, w) == Append(L, w)

\* a collection callback that leaves the lists alone
OnCollectNothing(d, w) == d

\* _Messenger._on_collect under the lock: the wrapper leaves every topic's list
OnCollect(d, w) ==
    [k \in DOMAIN d |-> IF ListContains(d[k], w) THEN ListRemove(d[k], w) ELSE d[k]]

\* The wrappers registered for handler h, over all topics
RefsOf(d, h) ==
    {r \in 1..nsub : \E k \in DOMAIN d : \E i \in 1..Len(d[k]) :
                        d[k][i].ref = r /\ d[k][i].h = h}

\* a send that waits for the lock before it enqueues
SendLocked(p, t, x) ==
    /\ Len(messages) < MaxQueue
    /\ p = DispatchThread => tick.pc = "idle"
    /\ lock = "free"
    /\ messages' = Append(messages, [topic |-> t, arg |-> x])
    /\ sendRaised' = FALSE
    /\ UNCHANGED <<subscribers, lock, tick, tickResult, calls, alive, behaviour,
                   pendingCollect, gc, mut, mutResult, nsub>>
    /\ UNCHANGED <<sgVars, vmVars, cmdVars, histVars>>

\* _Messenger.send, thread p: one put on the queue
SendPut(p, t, x) ==
    /\ Len(messages) < MaxQueue
    /\ p = DispatchThread => tick.pc = "idle"
    /\ LET r == QueuePut(messages, [topic |-> t, arg |-> x])
       IN  /\ messages' = r.q
           /\ sendRaised' = r.raised
    /\ UNCHANGED <<subscribers, lock, tick, tickResult, calls, alive, behaviour,
                   pendingCollect, gc, mut, mutResult, nsub>>
    /\ UNCHANGED <<sgVars, vmVars, cmdVars>>

\* _Messenger.send: enqueue only
Send(p, t, x) == SendPut(p, t, x) /\ UNCHANGED histVars

\* the same send, with the history of when it was made
SendLate(p, t, x) ==
    /\ SendPut(p, t, x)
    /\ sentAt' = Append(sentAt, nsub)
    /\ UNCHANGED <<curAt, unsubscribed>>

\* a subscribe that does not wait for the lock
SubscribeBeginUnlocked(t, h) ==
    /\ nsub < MaxSubs
    /\ mut.pc = "idle"
    /\ alive[h]
    /\ lock' = "mut"
    /\ mut' = [pc |-> "sub", topic |-> t, h |-> h]
    /\ UNCHANGED <<subscribers, messages, tick, tickResult, calls, alive, behaviour,
                   pendingCollect, gc, mutResult, nsub, sendRaised>>
    /\ UNCHANGED <<sgVars, vmVars, cmdVars, histVars>>

\* _Messenger.subscribe, entering "with self._lock"
SubscribeBegin(t, h) ==
    /\ nsub < MaxSubs
    /\ mut.pc = "idle"
    /\ alive[h]
    /\ lock = "free"
    /\ lock' = "mut"
    /\ mut' = [pc |-> "sub", topic |-> t, h |-> h]
    /\ UNCHANGED <<subscribers, messages, tick, tickResult, calls, alive, behaviour,
                   pendingCollect, gc, mutResult, nsub, sendRaised>>
    /\ UNCHANGED <<sgVars, vmVars, cmdVars, histVars>>

\* _Messenger.subscribe, the body and the release
SubscribeEnd ==
    /\ mut.pc = "sub"
    /\ LET g == DictGet(subscribers, mut.topic)
           w == WeakCallable(nsub + 1, mut.h, TRUE)
       IN  subscribers' = [subscribers EXCEPT ![mut.topic] = ListAppend(g.list, w)]
    /\ nsub' = nsub + 1
    /\ lock' = "free"
    /\ mut' = MutIdle
    /\ mutResult' = "none"
    /\ UNCHANGED <<messages, tick, tickResult, calls, alive, behaviour,
                   pendingCollect, gc, sendRaised>>
    /\ UNCHANGED <<sgVars, vmVars, cmdVars, histVars>>

\* _Messenger.unsubscribe, entering "with self._lock"
UnsubscribeBegin(t, h) ==
    /\ mut.pc = "idle"
    /\ alive[h]
    /\ lock = "free"
    /\ lock' = "mut"
    /\ mut' = [pc |-> "unsub", topic |-> t, h |-> h]
    /\ UNCHANGED <<subscribers, messages, tick, tickResult, calls, alive, behaviour,
                   pendingCollect, gc, mutResult, nsub, sendRaised>>
    /\ UNCHANGED <<sgVars, vmVars, cmdVars, histVars>>

\* _Messenger.unsubscribe, the body and the release: list.remove of a wrapper made
\* for the comparison (identity 0: no stored wrapper is that object)
UnsubscribeRemove ==
    /\ mut.pc = "unsub"
    /\ LET g == DictGet(subscribers, mut.topic)
           w == WeakCallable(0, mut.h, FALSE)
       IN  IF ListContains(g.list, w)
           THEN /\ subscribers' = [subscribers EXCEPT ![mut.topic] = ListRemove(g.list, w)]
                /\ mutResult' = "none"
           ELSE /\ subscribers' = subscribers
                /\ mutResult' = "ValueError"
    /\ lock' = "free"
    /\ mut' = MutIdle
    /\ UNCHANGED <<messages, tick, tickResult, calls, alive, behaviour,
                   pendingCollect, gc, nsub, sendRaised>>
    /\ UNCHANGED <<sgVars, vmVars, cmdVars>>

UnsubscribeEnd == UnsubscribeRemove /\ UNCHANGED histVars

\* the same step, with the history of the calls made for a subscribed handler
UnsubscribeEndNoted ==
    /\ UnsubscribeRemove
    /\ unsubscribed' =
           IF \E i \in 1..Len(subscribers[mut.topic]) : subscribers[mut.topic][i].h = mut.h
           THEN unsubscribed \cup {<<mut.topic, mut.h>>}
           ELSE unsubscribed
    /\ UNCHANGED <<sentAt, curAt>>

\* _Messenger._execute, entering "with self._lock" when the timer ticks
TickStart ==
    /\ tick.pc = "idle"
    /\ lock = "free"
    /\ lock' = "tick"
    /\ tick' = [pc |-> "loop", cur |-> NoMsg, idx |-> 0]
    /\ UNCHANGED <<subscribers, messages, tickResult, calls, alive, behaviour,
                   pendingCollect, gc, mut, mutResult, nsub, sendRaised>>
    /\ UNCHANGED <<sgVars, vmVars, cmdVars, histVars>>

\* _execute: the queue is not empty; get a message and look its subscribers up
TickTake ==
    /\ tick.pc = "loop"
    /\ Len(messages) > 0
    /\ messages' = QueueGet(messages).q
    /\ calls' = <<>>
    /\ LET m == QueueGet(messages).item
           g == DictGet(subscribers, m.topic)
       IN  IF g.raised
           THEN /\ tick' = TickIdle
                /\ tickResult' = "error"
                /\ lock' = "free"
           ELSE /\ tick' = [pc |-> "dispatch", cur |-> m, idx |-> 1]
                /\ tickResult' = tickResult
                /\ lock' = lock
    /\ UNCHANGED <<subscribers, alive, behaviour, pendingCollect, gc, mut, mutResult, nsub,
                   sendRaised>>
    /\ UNCHANGED <<sgVars, vmVars, cmdVars>>

TickGet == TickTake /\ UNCHANGED histVars

\* the same step, with the history of when the message was sent
TickGetLate ==
    /\ TickTake
    /\ sentAt' = Tail(sentAt)
    /\ curAt' = Head(sentAt)
    /\ UNCHANGED unsubscribed

\* _execute: one round of "for subscriber in self._subscribers[msg]"
TickInvoke ==
    /\ tick.pc = "dispatch"
    /\ tick.idx <= Len(subscribers[tick.cur.topic])
    /\ LET w == subscribers[tick.cur.topic][tick.idx]
           outcome == WeakCall(w, alive, behaviour)
           call == [h |-> w.h, ref |-> w.ref, arg |-> tick.cur.arg, thread |-> DispatchThread]
       IN  CASE outcome = "ReferenceError" ->
                    \* except weakref.ReferenceError: pass
                    /\ calls' = calls
                    /\ tick' = [tick EXCEPT !.idx = @ + 1]
                    /\ UNCHANGED <<lock, tickResult, messages>>
              [] outcome = "ok" ->
                    /\ calls' = Append(calls, call)
                    /\ tick' = [tick EXCEPT !.idx = @ + 1]
                    /\ UNCHANGED <<lock, tickResult, messages>>
              [] outcome = "emit" ->
                    \* the handler sends the message on (Signal.emit): one more put
                    /\ Len(messages) < MaxQueue
                    /\ calls' = Append(calls, call)
                    /\ tick' = [tick EXCEPT !.idx = @ + 1]
                    /\ messages' = QueuePut(messages, tick.cur).q
                    /\ UNCHANGED <<lock, tickResult>>
              [] outcome = "connect" ->
                    \* the handler calls subscribe or unsubscribe (Signal.connect /
                    \* disconnect): "with self._lock" on the Lock this very thread
                    \* holds; a Lock is not reentrant, the acquire never returns
                    /\ calls' = Append(calls, call)
                    /\ tick' = [tick EXCEPT !.pc = "blocked"]
                    /\ UNCHANGED <<lock, tickResult, messages>>
              [] OTHER ->
                    \* any other exception leaves _execute; "with" releases the lock
                    /\ calls' = <<>>
                    /\ tick' = TickIdle
                    /\ lock' = "free"
                    /\ tickResult' = "error"
                    /\ UNCHANGED messages
    /\ UNCHANGED <<subscribers, alive, behaviour, pendingCollect, gc, mut,
                   mutResult, nsub, sendRaised>>
    /\ UNCHANGED <<sgVars, vmVars, cmdVars, histVars>>

\* _execute: the for loop is over; back to the while test
TickNext ==
    /\ tick.pc = "dispatch"
    /\ tick.idx > Len(subscribers[tick.cur.topic])
    /\ tick' = [pc |-> "loop", cur |-> NoMsg, idx |-> 0]
    /\ calls' = <<>>
    /\ UNCHANGED <<subscribers, messages, lock, tickResult, alive, behaviour,
                   pendingCollect, gc, mut, mutResult, nsub, sendRaised>>
    /\ UNCHANGED <<sgVars, vmVars, cmdVars, histVars>>

\* _execute: the queue is empty; leave the while loop and release the lock
TickDone ==
    /\ tick.pc = "loop"
    /\ Len(messages) = 0
    /\ tick' = TickIdle
    /\ lock' = "free"
    /\ tickResult' = "none"
    /\ UNCHANGED <<subscribers, messages, calls, alive, behaviour,
                   pendingCollect, gc, mut, mutResult, nsub, sendRaised>>
    /\ UNCHANGED <<sgVars, vmVars, cmdVars, histVars>>

\* The receiver of handler h becomes unreachable: its weak references are cleared
\* and the callback of each wrapper that has one becomes due.  A caller inside
\* subscribe / unsubscribe holds the bound method, which keeps the receiver alive.
Die(h) ==
    /\ alive[h]
    /\ mut.h # h
    /\ alive' = [alive EXCEPT ![h] = FALSE]
    /\ pendingCollect' = pendingCollect \cup RefsOf(subscribers, h)
    /\ UNCHANGED <<subscribers, messages, lock, tick, tickResult, calls, behaviour,
                   gc, mut, mutResult, nsub, sendRaised>>
    /\ UNCHANGED <<sgVars, vmVars, cmdVars, histVars>>

\* WeakCallable._on_collect -> _Messenger._on_collect, entering "with self._lock"
CollectBegin(r) ==
    /\ r \in pendingCollect
    /\ gc.pc = "idle"
    /\ lock = "free"
    /\ lock' = "gc"
    /\ gc' = [pc |-> "collect", ref |-> r]
    /\ UNCHANGED <<subscribers, messages, tick, tickResult, calls, alive, behaviour,
                   pendingCollect, mut, mutResult, nsub, sendRaised>>
    /\ UNCHANGED <<sgVars, vmVars, cmdVars, histVars>>

\* _Messenger._on_collect, the body and the release
CollectEnd ==
    /\ gc.pc = "collect"
    /\ subscribers' = OnCollect(subscribers, WeakCallable(gc.ref, "none", TRUE))
    /\ pendingCollect' = pendingCollect \ {gc.ref}
    /\ lock' = "free"
    /\ gc' = GcIdle
    /\ UNCHANGED <<messages, tick, tickResult, calls, alive, behaviour,
                   mut, mutResult, nsub, sendRaised>>
    /\ UNCHANGED <<sgVars, vmVars, cmdVars, histVars>>

BusInit ==
    /\ subscribers = [t \in Topics |-> <<>>]
    /\ messages = <<>>
    /\ lock = "free"
    /\ tick = TickIdle
    /\ tickResult = "none"
    /\ calls = <<>>
    /\ alive = [h \in Handlers |-> TRUE]
    /\ behaviour = [h \in Handlers |-> IF h = "h2" THEN "raise" ELSE "ok"]
    /\ pendingCollect = {}
    /\ gc = GcIdle
    /\ mut = MutIdle
    /\ mutResult = "none"
    /\ nsub = 0
    /\ sendRaised = FALSE
    /\ sentAt = <<>>
    /\ curAt = 0
    /\ unsubscribed = {}

\* a bus whose handlers use the bus themselves: h1 connects a handler when it is
\* invoked, h2 sends the message it was given on
ReentrantBusInit ==
    /\ subscribers = [t \in Topics |-> <<>>]
    /\ messages = <<>>
    /\ lock = "free"
    /\ tick = TickIdle
    /\ tickResult = "none"
    /\ calls = <<>>
    /\ alive = [h \in Handlers |-> TRUE]
    /\ behaviour = [h \in Handlers |-> IF h = "h1" THEN "connect" ELSE "emit"]
    /\ pendingCollect = {}
    /\ gc = GcIdle
    /\ mut = MutIdle
    /\ mutResult = "none"
    /\ nsub = 0
    /\ sendRaised = FALSE
    /\ sentAt = <<>>
    /\ curAt = 0
    /\ unsubscribed = {}

ReentrantNext ==
    \/ \E p \in Publishers, m \in Sendable : Send(p, m[1], m[2])
    \/ \E t \in Topics, h \in Handlers : SubscribeBegin(t, h)
    \/ SubscribeEnd
    \/ TickStart
    \/ TickGet
    \/ TickInvoke
    \/ TickNext
    \/ TickDone
    \/ \E h \in Handlers : Die(h)
    \/ \E r \in 1..MaxSubs : CollectBegin(r)
    \/ CollectEnd

\* the dispatch thread, the finalizer thread and a thread inside subscribe run on
\* whenever they can
ReentrantFairness ==
    /\ WF_vars(TickGet) /\ WF_vars(TickInvoke) /\ WF_vars(TickNext) /\ WF_vars(TickDone)
    /\ WF_vars(SubscribeEnd)
    /\ WF_vars(CollectEnd)
    /\ \A r \in 1..MaxSubs : SF_vars(CollectBegin(r))

BusNext ==
    \/ \E p \in Publishers, m \in Sendable : Send(p, m[1], m[2])
    \/ \E t \in Topics, h \in Handlers : SubscribeBegin(t, h)
    \/ SubscribeEnd
    \/ \E t \in Topics, h \in Handlers : UnsubscribeBegin(t, h)
    \/ UnsubscribeEnd
    \/ TickStart
    \/ TickGet
    \/ TickInvoke
    \/ TickNext
    \/ TickDone
    \/ \E h \in Handlers : Die(h)
    \/ \E r \in 1..MaxSubs : CollectBegin(r)
    \/ CollectEnd


-----------------------------------------------------------------------------

\* the bus with publishers, subscribers and the timer only, and the history kept
LateNext ==
    \/ \E p \in Publishers, m \in Sendable : SendLate(p, m[1], m[2])
    \/ \E t \in Topics, h \in Handlers : SubscribeBegin(t, h)
    \/ SubscribeEnd
    \/ TickStart
    \/ TickGetLate
    \/ TickInvoke
    \/ TickNext
    \/ TickDone

\* the bus with publishers, subscribers, unsubscribers and the timer, and the
\* history of the unsubscribe calls
UnsubNext ==
    \/ \E p \in Publishers, m \in Sendable : Send(p, m[1], m[2])
    \/ \E t \in Topics, h \in Handlers : SubscribeBegin(t, h)
    \/ SubscribeEnd
    \/ \E t \in Topics, h \in Handlers : UnsubscribeBegin(t, h)
    \/ UnsubscribeEndNoted
    \/ TickStart
    \/ TickGet
    \/ TickInvoke
    \/ TickNext
    \/ TickDone

-----------------------------------------------------------------------------
(* _Messenger.instance(): mvvm.py lines 84-101 *)

Threads == 1..NThreads

\* "if not cls._instance": the test, on the value read now
InstanceCheck(t) ==
    /\ ipc[t] = "idle"
    /\ ipc' = [ipc EXCEPT ![t] = IF instance = 0 THEN "create" ELSE "return"]
    /\ UNCHANGED <<instance, created, ret>>
    /\ UNCHANGED <<busVars, vmVars, cmdVars>>

\* "cls._instance = _Messenger(interval)": a new object is built and stored
InstanceCreate(t) ==
    /\ ipc[t] = "create"
    /\ created' = created + 1
    /\ instance' = created + 1
    /\ ipc' = [ipc EXCEPT ![t] = "return"]
    /\ UNCHANGED ret
    /\ UNCHANGED <<busVars, vmVars, cmdVars>>

\* "return cls._instance": the attribute is read again
InstanceReturn(t) ==
    /\ ipc[t] = "return"
    /\ ret' = [ret EXCEPT ![t] = instance]
    /\ ipc' = [ipc EXCEPT ![t] = "idle"]
    /\ UNCHANGED <<instance, created>>
    /\ UNCHANGED <<busVars, vmVars, cmdVars>>

SgInit ==
    /\ instance = 0
    /\ created = 0
    /\ ipc = [t \in Threads |-> "idle"]
    /\ ret = [t \in Threads |-> 0]

SgNext ==
    \/ \E t \in Threads : InstanceCheck(t)
    \/ \E t \in Threads : InstanceCreate(t)
    \/ \E t \in Threads : InstanceReturn(t)


-----------------------------------------------------------------------------
(* command and Command: mvvm.py lines 368-454 *)

Descriptors == {"addDigitCommand", "command_handler"}   \* command objects of a class
Instances   == {"A", "B"}                               \* view models of that class

\* command.can_execute was used on the descriptor (the docstring's command_handler)
HasCanExecute(d) == d = "command_handler"

\* Command(execute, can_execute) with execute = partial(handler, obj) and
\* can_execute = partial(predicate, obj) or None
Command(obj, can) == [obj |-> obj, can |-> can]

\* a descriptor that builds a new Command on every read
CommandGetUncached(c, heap, d, obj) ==
    [cache |-> [c EXCEPT ![d] = Len(heap) + 1],
     heap  |-> Append(heap, Command(obj, HasCanExecute(d))),
     id    |-> Len(heap) + 1]

\* command.__get__(obj, objtype): the Command is built when self._command is unset
CommandGet(c, heap, d, obj) ==
    IF c[d] = 0
    THEN [cache |-> [c EXCEPT ![d] = Len(heap) + 1],
          heap  |-> Append(heap, Command(obj, HasCanExecute(d))),
          id    |-> Len(heap) + 1]
    ELSE [cache |-> c, heap |-> heap, id |-> c[d]]

\* Reading the attribute d on instance obj
GetCommand(d, obj) ==
    /\ Len(cmds) < MaxCommands
    /\ LET r == CommandGet(cache, cmds, d, obj)
       IN  /\ cache' = r.cache
           /\ cmds' = r.heap
           /\ got' = [got EXCEPT ![d][obj] = @ \cup {r.id}]
           /\ lastExec' = [kind |-> "get", d |-> d, via |-> obj, id |-> r.id,
                           receiver |-> "none", created |-> Len(r.heap) > Len(cmds)]
    /\ UNCHANGED <<busVars, sgVars, vmVars>>

\* Command.Execute(parameter) on a Command that reading d on obj returned
Execute(d, obj, id) ==
    /\ id \in got[d][obj]
    /\ lastExec' = [kind |-> "Execute", d |-> d, via |-> obj, id |-> id,
                    receiver |-> cmds[id].obj, created |-> FALSE]
    /\ UNCHANGED <<cache, cmds, got>>
    /\ UNCHANGED <<busVars, sgVars, vmVars>>

\* Command.CanExecute(parameter): the predicate is called if there is one
CanExecute(d, obj, id) ==
    /\ id \in got[d][obj]
    /\ lastExec' = [kind |-> "CanExecute", d |-> d, via |-> obj, id |-> id,
                    receiver |-> IF cmds[id].can THEN cmds[id].obj ELSE "none",
                    created |-> FALSE]
    /\ UNCHANGED <<cache, cmds, got>>
    /\ UNCHANGED <<busVars, sgVars, vmVars>>

NoExec == [kind |-> "none", d |-> "none", via |-> "none", id |-> 0,
           receiver |-> "none", created |-> FALSE]

CmdInit ==
    /\ cache = [d \in Descriptors |-> 0]
    /\ cmds = <<>>
    /\ got = [d \in Descriptors |-> [i \in Instances |-> {}]]
    /\ lastExec = NoExec

CmdNext ==
    \/ \E d \in Descriptors, i \in Instances : GetCommand(d, i)
    \/ \E d \in Descriptors, i \in Instances, id \in 1..MaxCommands : Execute(d, i, id)
    \/ \E d \in Descriptors, i \in Instances, id \in 1..MaxCommands : CanExecute(d, i, id)

-----------------------------------------------------------------------------
(* Values of Python attributes: strings (as sequences of characters) and numbers *)

PyStr(s)   == [k |-> "str", s |-> s, n |-> 0]
PyInt(n)   == [k |-> "int", s |-> <<>>, n |-> n]
PyFloat(n) == [k |-> "float", s |-> <<>>, n |-> n]         \* a float with an integral value
PyNone     == [k |-> "none", s |-> <<>>, n |-> 0]
Unset    == [k |-> "unset", s |-> <<>>, n |-> 0]         \* the attribute does not exist

\* a != b is "not PyEq(a, b)": strings compare by content, numbers by value whatever
\* their type, a string never equals a number
PyEq(a, b) ==
    IF a.k = "str" /\ b.k = "str" THEN a.s = b.s
    ELSE IF a.k = "none" /\ b.k = "none" THEN TRUE
    ELSE IF a.k \in {"int", "float"} /\ b.k \in {"int", "float"} THEN a.n = b.n
    ELSE FALSE

-----------------------------------------------------------------------------
(* Notifiable and ViewModel: mvvm.py lines 282-365 *)

Props == {"outputText", "inputText"}     \* the Notifiable fields of MyViewModel
Backing == "_foo"                        \* the attribute behind the accessor foo
Attrs == Props \cup {Backing}            \* the instance attributes the model follows
Initial(p) == PyStr(<<>>)                  \* Notifiable('')

\* ViewModel.RaisePropertyChanged(name): every handler is called, in order
RaisePropertyChanged(n, name) == [name |-> name, handlers |-> [i \in 1..n |-> i]]

\* Notifiable.__get__: getattr(obj, '__notifiable_<name>', self.initial)
NotifiableGet(sl, p) == IF sl[p] = Unset THEN Initial(p) ELSE sl[p]

\* a setter without the comparison
NotifiableSetAlways(sl, n, p, v) ==
    [slots |-> [sl EXCEPT ![p] = v], raised |-> <<RaisePropertyChanged(n, p)>>]

\* Notifiable.__set__: the new slots and the RaisePropertyChanged calls made
NotifiableSet(sl, n, p, v) ==
    IF ~PyEq(NotifiableGet(sl, p), v)
    THEN [slots |-> [sl EXCEPT ![p] = v], raised |-> <<RaisePropertyChanged(n, p)>>]
    ELSE [slots |-> sl, raised |-> <<>>]

\* Values a caller assigns in SpecNotify
AssignValues == {PyStr(<<>>), PyStr(<<"5">>), PyInt(0), PyFloat(0)}

NoOp == [op |-> "none", prop |-> "none", value |-> Unset, before |-> [p \in Attrs |-> Unset]]

\* obj.p = v
Assign(p, v) ==
    /\ LET r == NotifiableSet(slots, listeners, p, v)
       IN  /\ slots' = r.slots
           /\ raised' = r.raised
    /\ lastOp' = [op |-> "set", prop |-> p, value |-> v, before |-> slots]
    /\ cmdError' = "none"
    /\ UNCHANGED <<listeners, outputNumber, prevOperator, keys>>
    /\ UNCHANGED <<busVars, sgVars, cmdVars, listVars>>

\* del obj.p (Notifiable.__delete__)
Delete(p) ==
    /\ slots' = [slots EXCEPT ![p] = Unset]
    /\ raised' = <<>>
    /\ lastOp' = [op |-> "del", prop |-> p, value |-> Unset, before |-> slots]
    /\ cmdError' = "none"
    /\ UNCHANGED <<listeners, outputNumber, prevOperator, keys>>
    /\ UNCHANGED <<busVars, sgVars, cmdVars, listVars>>

\* ViewModel.add_PropertyChanged(handler)
AddPropertyChanged ==
    /\ listeners < MaxListeners
    /\ listeners' = listeners + 1
    /\ raised' = <<>>
    /\ lastOp' = [op |-> "add", prop |-> "none", value |-> Unset, before |-> slots]
    /\ cmdError' = "none"
    /\ UNCHANGED <<slots, outputNumber, prevOperator, keys>>
    /\ UNCHANGED <<busVars, sgVars, cmdVars, listVars>>

\* ViewModel.remove_PropertyChanged(handler): a Python list has no Remove method
RemovePropertyChanged ==
    /\ raised' = <<>>
    /\ lastOp' = [op |-> "remove", prop |-> "none", value |-> Unset, before |-> slots]
    /\ cmdError' = "AttributeError"
    /\ UNCHANGED <<slots, listeners, outputNumber, prevOperator, keys>>
    /\ UNCHANGED <<busVars, sgVars, cmdVars, listVars>>

\* ---- notifiable, on the accessor of its docstring: mvvm.py lines 214-252 ----
\*     @notifiable
\*     def foo(self): return self._foo
\*     @foo.setter
\*     def foo(self, value): self._foo = value

\* newgetter: the getter's value, None when the getter raises AttributeError
newgetter(sl) == IF sl[Backing] = Unset THEN PyNone ELSE sl[Backing]

\* newsetter: the attributes after it and the RaisePropertyChanged calls it made
newsetter(sl, n, v) ==
    LET oldvalue == newgetter(sl)
    IN  IF ~PyEq(oldvalue, v)
        THEN [slots |-> [sl EXCEPT ![Backing] = v],                 \* setter(slf, newvalue)
              raised |-> <<RaisePropertyChanged(n, "foo")>>]        \* setter.__name__
        ELSE [slots |-> sl, raised |-> <<>>]

\* Values a caller assigns in SpecAccessor
AccessorValues == {PyNone, PyInt(0), PyFloat(0), PyStr(<<>>), PyStr(<<"5">>)}

\* obj.foo = v
AccessorAssign(v) ==
    /\ LET r == newsetter(slots, listeners, v)
       IN  /\ slots' = r.slots
           /\ raised' = r.raised
    /\ lastOp' = [op |-> "accessor_set", prop |-> "foo", value |-> v, before |-> slots]
    /\ cmdError' = "none"
    /\ UNCHANGED <<listeners, outputNumber, prevOperator, keys>>
    /\ UNCHANGED <<busVars, sgVars, cmdVars, listVars>>

\* del obj.foo: the property has no deleter (fdel is None)
AccessorDelete ==
    /\ raised' = <<>>
    /\ lastOp' = [op |-> "accessor_del", prop |-> "foo", value |-> Unset, before |-> slots]
    /\ cmdError' = "AttributeError"
    /\ UNCHANGED <<slots, listeners, outputNumber, prevOperator, keys>>
    /\ UNCHANGED <<busVars, sgVars, cmdVars, listVars>>

AccessorNext ==
    \/ \E v \in AccessorValues : AccessorAssign(v)
    \/ AccessorDelete
    \/ AddPropertyChanged

\* ---- List(ObservableCollection[object]): mvvm.py lines 255-279 ----

Items == {"a", "b"}
Seqs == UNION {[1..n -> Items] : n \in 0..MaxSeq}       \* what extend is given

NoList == [op |-> "none", seq |-> <<>>, before |-> <<>>, raised |-> "none"]

\* ObservableCollection.Add(item)
Add(c, item) == Append(c, item)

\* List.extend(seq): "for item in seq: return self.Add(item)" returns in the first
\* round of the loop
extend(c, seq) == IF seq = <<>> THEN c ELSE Add(c, Head(seq))

\* ObservableCollection.RemoveAt(index): the index has to be one of the collection
\* (indices from 0)
RemoveAt(c, index) ==
    IF index < 0 \/ index >= Len(c)
    THEN [raised |-> "ArgumentOutOfRangeException", c |-> c]
    ELSE [raised |-> "none", c |-> SubSeq(c, 1, index) \o SubSeq(c, index + 2, Len(c))]

\* List.pop(index): "if index:" is false for None and for 0 (-1 stands for None)
pop(c, index) ==
    IF index # -1 /\ index # 0 THEN RemoveAt(c, index) ELSE RemoveAt(c, Len(c) - 1)

\* ObservableCollection.Insert(index, item): the item is put before the one at
\* index; the index may be Count (the end), no more, and not negative
Insert(c, index, item) ==
    IF index < 0 \/ index > Len(c)
    THEN [raised |-> "ArgumentOutOfRangeException", c |-> c]
    ELSE [raised |-> "none",
          c |-> SubSeq(c, 1, index) \o <<item>> \o SubSeq(c, index + 1, Len(c))]

\* ObservableCollection.Remove(item): the first item equal to it leaves the
\* collection and the call returns True; False, and no change, when there is none
Remove(c, item) ==
    IF \E i \in 1..Len(c) : c[i] = item
    THEN LET i == CHOOSE j \in 1..Len(c) : c[j] = item /\ \A k \in 1..(j - 1) : c[k] # item
         IN  [found |-> TRUE, c |-> SubSeq(c, 1, i - 1) \o SubSeq(c, i + 1, Len(c))]
    ELSE [found |-> FALSE, c |-> c]

\* lst.append(item)
CollAppend(item) ==
    /\ Len(coll) < MaxItems
    /\ coll' = Add(coll, item)
    /\ lastList' = [op |-> "append", seq |-> <<item>>, before |-> coll, raised |-> "none"]
    /\ UNCHANGED <<slots, listeners, raised, lastOp, outputNumber, prevOperator, cmdError, keys>>
    /\ UNCHANGED <<busVars, sgVars, cmdVars>>

\* lst.extend(seq)
CollExtend(seq) ==
    /\ Len(coll) + Len(seq) <= MaxItems
    /\ coll' = extend(coll, seq)
    /\ lastList' = [op |-> "extend", seq |-> seq, before |-> coll, raised |-> "none"]
    /\ UNCHANGED <<slots, listeners, raised, lastOp, outputNumber, prevOperator, cmdError, keys>>
    /\ UNCHANGED <<busVars, sgVars, cmdVars>>

\* lst.pop(index), lst.pop() when index is -1
CollPop(index) ==
    /\ LET r == pop(coll, index)
       IN  /\ coll' = r.c
           /\ lastList' = [op |-> "pop", seq |-> <<index>>, before |-> coll, raised |-> r.raised]
    /\ UNCHANGED <<slots, listeners, raised, lastOp, outputNumber, prevOperator, cmdError, keys>>
    /\ UNCHANGED <<busVars, sgVars, cmdVars>>

\* lst.insert(index, item)
CollInsert(index, item) ==
    /\ Len(coll) < MaxItems
    /\ LET r == Insert(coll, index, item)
       IN  /\ coll' = r.c
           /\ lastList' = [op |-> "insert", seq |-> <<index, item>>, before |-> coll,
                           raised |-> r.raised]
    /\ UNCHANGED <<slots, listeners, raised, lastOp, outputNumber, prevOperator, cmdError, keys>>
    /\ UNCHANGED <<busVars, sgVars, cmdVars>>

\* lst.remove(item)
CollRemove(item) ==
    /\ coll' = Remove(coll, item).c
    /\ lastList' = [op |-> "remove", seq |-> <<item>>, before |-> coll, raised |-> "none"]
    /\ UNCHANGED <<slots, listeners, raised, lastOp, outputNumber, prevOperator, cmdError, keys>>
    /\ UNCHANGED <<busVars, sgVars, cmdVars>>

ListNext ==
    \/ \E item \in Items : CollAppend(item)
    \/ \E index \in -1..MaxItems, item \in Items : CollInsert(index, item)
    \/ \E item \in Items : CollRemove(item)
    \/ \E seq \in Seqs : CollExtend(seq)
    \/ \E index \in -1..(MaxItems - 1) : CollPop(index)

VmInit ==
    /\ slots = [p \in Attrs |-> Unset]
    /\ listeners = 0
    /\ raised = <<>>
    /\ lastOp = NoOp
    /\ outputNumber = <<0, 1>>
    /\ prevOperator = <<"=">>
    /\ cmdError = "none"
    /\ keys = <<>>
    /\ coll = <<>>
    /\ lastList = NoList

NotifyNext ==
    \/ \E p \in Props, v \in AssignValues : Assign(p, v)
    \/ \E p \in Props : Delete(p)
    \/ AddPropertyChanged
    \/ RemovePropertyChanged

-----------------------------------------------------------------------------
(* The calculator: Clac_Ironpython.py lines 9-55 *)

DigitChars == {"0", "1", "2", "3", "4", "5", "6", "7", "8", "9"}

DigitVal(c) ==
    CASE c = "0" -> 0 [] c = "1" -> 1 [] c = "2" -> 2 [] c = "3" -> 3 [] c = "4" -> 4
      [] c = "5" -> 5 [] c = "6" -> 6 [] c = "7" -> 7 [] c = "8" -> 8 [] c = "9" -> 9

DigitChar(n) ==
    CASE n = 0 -> "0" [] n = 1 -> "1" [] n = 2 -> "2" [] n = 3 -> "3" [] n = 4 -> "4"
      [] n = 5 -> "5" [] n = 6 -> "6" [] n = 7 -> "7" [] n = 8 -> "8" [] n = 9 -> "9"

CountChar(s, c) == Cardinality({i \in 1..Len(s) : s[i] = c})

\* a test that lets every text through
IsFloatTextAny(s) == TRUE

\* float(s) does not raise ValueError, for a text s of digits and points:
\* at most one point and at least one digit ("5", "5.", ".5", "0.5"; not "", ".", "5..")
IsFloatText(s) ==
    /\ \A i \in 1..Len(s) : s[i] \in DigitChars \cup {"."}
    /\ CountChar(s, ".") <= 1
    /\ \E i \in 1..Len(s) : s[i] \in DigitChars

\* a test that never sees a zero
FloatIsZeroNever(s) == FALSE

\* float(s) == 0 for such a text: every digit is a zero
FloatIsZero(s) == \A i \in 1..Len(s) : s[i] \in DigitChars => s[i] = "0"

Abs(n) == IF n < 0 THEN -n ELSE n

RECURSIVE Gcd(_, _)
Gcd(a, b) == IF b = 0 THEN a ELSE Gcd(b, a % b)

RECURSIVE Pow10(_)
Pow10(k) == IF k = 0 THEN 1 ELSE 10 * Pow10(k - 1)

\* Fraction(n, d): lowest terms, positive denominator
Fraction(n, d) ==
    LET g == Gcd(Abs(n), Abs(d))
        sg == IF d < 0 THEN -1 ELSE 1
    IN  <<sg * (n \div g), sg * (d \div g)>>

\* the digits of s read as one integer, the point left out
RECURSIVE Mantissa(_, _)
Mantissa(s, acc) ==
    IF s = <<>> THEN acc
    ELSE IF Head(s) = "." THEN Mantissa(Tail(s), acc)
    ELSE Mantissa(Tail(s), 10 * acc + DigitVal(Head(s)))

\* the number of digits after the point
Scale(s) ==
    IF CountChar(s, ".") = 0 THEN 0
    ELSE Len(s) - (CHOOSE i \in 1..Len(s) : s[i] = ".")

\* frac = lambda a : Fraction(Decimal(a)), for a text float() accepts
frac(s) == Fraction(Mantissa(s, 0), Pow10(Scale(s)))

\* MyViewModel.operators[op](a, b): the value, or the exception it raises
operators(op, a, b) ==
    LET f == frac(b)
    IN  CASE op = "+" -> [raised |-> "none", value |-> Fraction(a[1] * f[2] + f[1] * a[2], a[2] * f[2])]
          [] op = "-" -> [raised |-> "none", value |-> Fraction(a[1] * f[2] - f[1] * a[2], a[2] * f[2])]
          [] op = "x" -> [raised |-> "none", value |-> Fraction(a[1] * f[1], a[2] * f[2])]
          [] op = "/" -> IF f[1] = 0
                         THEN [raised |-> "ZeroDivisionError", value |-> a]
                         ELSE [raised |-> "none", value |-> Fraction(a[1] * f[2], a[2] * f[1])]
          [] op = "=" -> [raised |-> "none", value |-> f]
          [] OTHER    -> [raised |-> "KeyError", value |-> a]

\* ---- str(float(q)) for a Fraction q: "%.12g", then ".0" if that shows no point ----

Precision == 12          \* significant digits str() gives a float (Python 2)

RECURSIVE NumDigits(_)
NumDigits(n) == IF n < 10 THEN 1 ELSE 1 + NumDigits(n \div 10)

RECURSIVE ExpDown(_, _)
ExpDown(a, d) == IF a >= d THEN 0 ELSE ExpDown(10 * a, d) - 1

\* the decimal exponent X of a/d > 0: 10^X <= a/d < 10^(X+1)
Exp10(a, d) == IF a >= d THEN NumDigits(a \div d) - 1 ELSE ExpDown(a, d)

\* the first k digits of num/den (1 <= num/den < 10), and whether more follow
RECURSIVE SigDigits(_, _, _, _)
SigDigits(num, den, k, acc) ==
    IF k = 0 THEN [digits |-> acc, rest |-> num # 0]
    ELSE SigDigits((num % den) * 10, den, k - 1, Append(acc, num \div den))

Front(ds) == SubSeq(ds, 1, Len(ds) - 1)
Last(ds)  == ds[Len(ds)]

\* add one in the last place; nothing but zeros is left when every digit was a 9
RECURSIVE Inc(_)
Inc(ds) ==
    IF ds = <<>> THEN <<>>
    ELSE IF Last(ds) = 9 THEN Append(Inc(Front(ds)), 0)
    ELSE Append(Front(ds), Last(ds) + 1)

RECURSIVE StripZeros(_)
StripZeros(ds) == IF ds # <<>> /\ Last(ds) = 0 THEN StripZeros(Front(ds)) ELSE ds

DigitText(ds) == [i \in 1..Len(ds) |-> DigitChar(ds[i])]

RECURSIVE NumText(_)
NumText(n) == IF n < 10 THEN <<DigitChar(n)>> ELSE Append(NumText(n \div 10), DigitChar(n % 10))

\* a/d > 0 rounded to Precision significant digits: its digits and its exponent.
\* float(q) is the double nearest to a/d; for the fractions the model reaches the
\* double and the fraction round to the same digits, and there is no exact half
\* (an exact half is rounded to even here).
RoundSig(a, d) ==
    LET x   == Exp10(a, d)
        g   == IF x >= 0 THEN SigDigits(a, d * Pow10(x), Precision + 1, <<>>)
                         ELSE SigDigits(a * Pow10(-x), d, Precision + 1, <<>>)
        ds  == SubSeq(g.digits, 1, Precision)
        nxt == g.digits[Precision + 1]
        up  == nxt > 5 \/ (nxt = 5 /\ (g.rest \/ Last(ds) % 2 = 1))
        all9 == \A i \in 1..Precision : ds[i] = 9
    IN  IF ~up THEN [digits |-> ds, exp |-> x]
        ELSE IF all9 THEN [digits |-> <<1>> \o [i \in 1..(Precision - 1) |-> 0], exp |-> x + 1]
        ELSE [digits |-> Inc(ds), exp |-> x]

\* "%.12g" % float(q)
FormatG(q) ==
    IF q[1] = 0 THEN <<"0">>
    ELSE
    LET r    == RoundSig(Abs(q[1]), q[2])
        x    == r.exp
        sign == IF q[1] < 0 THEN <<"-">> ELSE <<>>
        body ==
            IF x < -4 \/ x >= Precision
            THEN LET m == StripZeros(r.digits)
                     e == IF Abs(x) < 10 THEN <<"0">> \o NumText(Abs(x)) ELSE NumText(Abs(x))
                 IN  <<DigitChar(m[1])>>
                     \o (IF Len(m) > 1 THEN <<".">> \o DigitText(Tail(m)) ELSE <<>>)
                     \o <<"e", IF x < 0 THEN "-" ELSE "+">> \o e
            ELSE IF x >= 0
            THEN LET f == StripZeros(SubSeq(r.digits, x + 2, Precision))
                 IN  DigitText(SubSeq(r.digits, 1, x + 1))
                     \o (IF f # <<>> THEN <<".">> \o DigitText(f) ELSE <<>>)
            ELSE <<"0", ".">> \o [i \in 1..(-x - 1) |-> "0"] \o DigitText(StripZeros(r.digits))
    IN  sign \o body

\* the "%.12g" text as it is
StrFloatG(q) == FormatG(q)

\* str(float(q)): float_str adds ".0" to a text with neither a point nor an exponent
StrFloat(q) ==
    LET t == FormatG(q)
    IN  IF \E i \in 1..Len(t) : t[i] \in {".", "e"} THEN t ELSE t \o <<".", "0">>

\* ---- MyViewModel ----

\* CommandParameter values of the keypad: a parameter is a string, kept as its characters
DigitParams    == {<<"0">>, <<"3">>, <<"5">>, <<".">>}
ArithParams    == {<<"+">>, <<"-">>, <<"x">>, <<"/">>, <<"=">>}      \* the keys of operators
OperatorParams == ArithParams \cup {<<"C">>, <<"A", "C">>}

\* v is '': the empty string is one object, so identity is emptiness of a str
IsEmptyStr(v) == v = PyStr(<<>>)

\* obj.p = v in the course of a command: st carries the view model's fields so far
SetProp(st, p, v) ==
    LET r == NotifiableSet(st.slots, listeners, p, v)
    IN  [st EXCEPT !.slots = r.slots, !.raised = st.raised \o r.raised]

Fields == [slots |-> slots, raised |-> <<>>, num |-> outputNumber,
           prev |-> prevOperator, err |-> "none"]

\* addDigitCommand(self, param): the fields when it returns
addDigitCommand(param) ==
    LET tempText == NotifiableGet(slots, "inputText").s \o param
    IN  IF IsFloatText(tempText)
        THEN SetProp(Fields, "inputText", PyStr(tempText))
        ELSE Fields                                  \* except ValueError: pass

\* operatorCommand(self, param): the fields when it returns or raises
operatorCommand(param) ==
    LET s1 == IF param = <<"A", "C">>
              THEN [SetProp(Fields, "outputText", PyStr(<<>>))
                        EXCEPT !.num = <<0, 1>>, !.prev = <<"=">>]
              ELSE Fields
    IN  IF \E i \in 1..Len(param) : param[i] = "C"                 \* 'C' in param
        THEN SetProp(s1, "inputText", PyStr(<<>>))
        ELSE IF IsEmptyStr(NotifiableGet(s1.slots, "inputText"))
        THEN [s1 EXCEPT !.prev = param]
        ELSE
        LET s2 == IF IsEmptyStr(NotifiableGet(s1.slots, "outputText"))
                  THEN SetProp(s1, "outputText", PyInt(0))
                  ELSE s1
            inp == NotifiableGet(s2.slots, "inputText").s
        IN  IF s2.prev = <<"/">> /\ ~IsFloatText(inp)
            THEN [s2 EXCEPT !.err = "ValueError"]
            ELSE IF s2.prev = <<"/">> /\ FloatIsZero(inp)
            THEN SetProp(SetProp(s2, "inputText", PyStr(<<>>)), "outputText", PyStr(<<>>))
            ELSE
            LET r == operators(s2.prev, s2.num, inp)
            IN  IF r.raised # "none"
                THEN [s2 EXCEPT !.err = r.raised]
                ELSE SetProp(SetProp([s2 EXCEPT !.num = r.value, !.prev = param],
                                     "inputText", PyStr(<<>>)),
                             "outputText", PyStr(StrFloat(r.value)))

\* the view model after a command that ended with the fields st
Returned(name, param, st) ==
    /\ slots' = st.slots
    /\ raised' = st.raised
    /\ outputNumber' = st.num
    /\ prevOperator' = st.prev
    /\ cmdError' = st.err
    /\ lastOp' = [op |-> name, prop |-> "none", value |-> PyStr(param), before |-> slots]
    /\ keys' = Append(keys, <<name, param>>)
    /\ UNCHANGED listeners
    /\ UNCHANGED <<busVars, sgVars, cmdVars, listVars>>

\* the view calls vm.addDigitCommand.Execute(param)
AddDigit(param) ==
    /\ Len(keys) < MaxSteps
    /\ Returned("addDigit", param, addDigitCommand(param))

\* the view calls vm.operatorCommand.Execute(param)
Operator(param) ==
    /\ Len(keys) < MaxSteps
    /\ Returned("operator", param, operatorCommand(param))

CalcNext ==
    \/ \E param \in DigitParams : AddDigit(param)
    \/ \E param \in OperatorParams : Operator(param)

-----------------------------------------------------------------------------
(* The specifications *)

Init == BusInit /\ SgInit /\ VmInit /\ CmdInit

SpecBus       == Init /\ [][BusNext]_vars
SpecLate      == Init /\ [][LateNext]_vars
SpecUnsub     == Init /\ [][UnsubNext]_vars

InitReentrant == ReentrantBusInit /\ SgInit /\ VmInit /\ CmdInit
SpecReentrant == InitReentrant /\ [][ReentrantNext]_vars /\ ReentrantFairness
SpecSingleton == Init /\ [][SgNext]_vars
SpecCommand   == Init /\ [][CmdNext]_vars
SpecNotify    == Init /\ [][NotifyNext]_vars
SpecAccessor  == Init /\ [][AccessorNext]_vars
SpecList      == Init /\ [][ListNext]_vars
SpecCalc      == Init /\ [][CalcNext]_vars

-----------------------------------------------------------------------------
(* Properties of the message bus *)

CurList == subscribers[tick.cur.topic]
Count(L, h) == Cardinality({i \in 1..Len(L) : L[i].h = h})
CallsTo(h) == {i \in 1..Len(calls) : calls[i].h = h}
\* The for loop of _execute has gone through every subscriber of the current message
DeliveryComplete == tick.pc = "dispatch" /\ tick.idx = Len(CurList) + 1
Entries == {<<t, i>> : t \in Topics, i \in 1..MaxSubs}
TotalEntries == Cardinality({e \in Entries : e[2] <= Len(subscribers[e[1]])})

\* C1: once a tick has gone through the subscribers of a message (t, x), every
\* handler whose receiver is alive and that is subscribed once to t has been
\* invoked exactly once for it, with x, on the dispatch thread; and handler
\* invocations exist only inside a tick-drain (the tick holds the lock).
C1_InvokedOnceInTick ==
    /\ DeliveryComplete =>
          \A h \in Handlers :
             (alive[h] /\ Count(CurList, h) = 1) =>
                /\ Cardinality(CallsTo(h)) = 1
                /\ \A i \in CallsTo(h) :
                      calls[i].arg = tick.cur.arg /\ calls[i].thread = DispatchThread
    /\ calls # <<>> => (lock = "tick" /\ tick.pc = "dispatch")

\* C1 witness: a delivery completed that invoked a live, once-subscribed handler
\* while another publisher's message is waiting in the queue
C1_Witness ==
    /\ DeliveryComplete
    /\ Len(messages) > 0
    /\ \E h \in Handlers :
          alive[h] /\ Count(CurList, h) = 1 /\ Cardinality(CallsTo(h)) = 1

C2_SkipStep ==
    (/\ tick.pc = "dispatch"
     /\ tick.idx <= Len(CurList)
     /\ ~alive[CurList[tick.idx].h]
     /\ tick' # tick)
    => /\ tick' = [tick EXCEPT !.idx = @ + 1]
       /\ calls' = calls
       /\ tickResult' = tickResult
       /\ lock' = lock
       /\ messages' = messages \/ Len(messages') > Len(messages)

C2_Removed ==
    \A t \in Topics : \A i \in 1..Len(subscribers[t]) :
        ~alive[subscribers[t][i].h] => subscribers[t][i].ref \in pendingCollect

\* C2: when the tick comes to a subscriber whose receiver is unreachable, it goes on
\* to the next subscriber without invoking anything and without an error leaving
\* the tick; and once the collection callback of a wrapper has run, the wrapper is
\* in no topic's list (a dead receiver's wrapper stays listed only while its
\* callback is still to run).
C2_DeadSkippedAndRemoved == []C2_Removed /\ [][C2_SkipStep]_vars

\* C2 witness: the tick has passed a dead first subscriber without a call, and the
\* wrapper of another subscription has already been removed by its callback
C2_Witness ==
    /\ tick.pc = "dispatch"
    /\ tick.idx = 2
    /\ ~alive[CurList[1].h]
    /\ calls = <<>>
    /\ TotalEntries < nsub

C8_Step ==
    /\ sendRaised' = FALSE
    /\ (/\ tick.pc = "loop"
        /\ tick'.pc # "loop"
        /\ Len(messages) > 0
        /\ subscribers[Head(messages).topic] = <<>>)
       => (tick'.pc = "dispatch" /\ tickResult' = tickResult /\ calls' = <<>>)
    /\ (tick.pc = "dispatch" /\ CurList = <<>> /\ tick' # tick)
       => (tick'.pc = "loop" /\ tickResult' = tickResult /\ calls' = <<>> /\ lock' = "tick")
    /\ (tick.pc = "loop" /\ tick'.pc = "idle")
       => (messages' = <<>> /\ tickResult' = "none" /\ lock' = "free")

\* C8: no send raises; the tick takes a message whose topic has no subscriber out
\* of the queue and goes back to the loop test with no call and no error; and a
\* tick that leaves its loop leaves the queue empty, with no error.
C8_NoSubscriberDrained == [][C8_Step]_vars

\* C8 witness: the tick is dispatching a message whose topic has no subscriber
C8_Witness ==
    /\ tick.pc = "dispatch"
    /\ CurList = <<>>
    /\ tickResult = "none"

C9_Step ==
    Len(messages') > Len(messages)
    => (calls' = calls /\ lock' = lock /\ tick' = tick /\ subscribers' = subscribers)

C9_Inv ==
    /\ \A i \in 1..Len(calls) : calls[i].thread = DispatchThread
    /\ calls # <<>> => (lock = "tick" /\ tick.pc = "dispatch")
    /\ Len(messages) < MaxQueue
          => ENABLED (\E m \in Sendable : Send("worker", m[1], m[2]))

\* C9: a send changes the queue only (no handler call, no change of the lock, of
\* the tick or of the subscriber lists) and a worker's send can be taken whoever
\* holds the lock; every handler call is made by the dispatch thread inside a tick.
C9_SendOnlyEnqueues == []C9_Inv /\ [][C9_Step]_vars

\* C9 witness: the queue is full while the tick is dispatching the message it took
\* from it: a message was enqueued while the tick held the lock
C9_Witness ==
    /\ tick.pc = "dispatch"
    /\ Len(messages) = MaxQueue

\* every subscribe call adds one entry for its handler to its topic's list,
\* whatever the list holds already
C11_SubscribeStep ==
    (mut.pc = "sub" /\ mut'.pc = "idle")
        => Count(subscribers'[mut.topic], mut.h) = Count(subscribers[mut.topic], mut.h) + 1

\* once a tick has gone through the subscribers of a message, every handler whose
\* receiver is alive has been invoked once per entry it has in the topic's list
C11_Delivered ==
    DeliveryComplete =>
        \A h \in Handlers :
            alive[h] =>
                /\ Cardinality(CallsTo(h)) = Count(CurList, h)
                /\ \A i \in CallsTo(h) : calls[i].arg = tick.cur.arg

\* C11: subscriptions are not deduplicated: the k-th subscription of a handler to
\* a topic adds a k-th entry, and a message of that topic drained by a tick invokes
\* the live handler once per entry, hence k times, each time with the message's
\* argument.
C11_NoDeduplication == []C11_Delivered /\ [][C11_SubscribeStep]_vars

\* C11 witness: a handler subscribed twice to the topic was invoked twice for one message
C11_Witness ==
    /\ DeliveryComplete
    /\ \E h \in Handlers :
          alive[h] /\ Count(CurList, h) = 2 /\ Cardinality(CallsTo(h)) = 2

\* the lock is held by exactly the one party that is inside its "with" block
C12_OneInside ==
    /\ (tick.pc # "idle") <=> (lock = "tick")
    /\ (mut.pc # "idle") <=> (lock = "mut")
    /\ (gc.pc # "idle") <=> (lock = "gc")

\* a step that changes a subscriber list is the last step of subscribe, unsubscribe
\* or the collection callback, made while holding the lock, with no tick under way
\* and nobody else inside
C12_ModifyStep ==
    subscribers' # subscribers
        => /\ tick.pc = "idle" /\ tick'.pc = "idle"
           /\ \/ lock = "mut" /\ mut.pc # "idle" /\ mut'.pc = "idle" /\ gc.pc = "idle"
              \/ lock = "gc" /\ gc.pc # "idle" /\ gc'.pc = "idle" /\ mut.pc = "idle"
           /\ lock' = "free"

\* C12: subscribe, unsubscribe, the collection callback and the tick-drain exclude
\* each other through the one lock: at most one of them is inside at any time, and
\* no subscriber list changes while a tick-drain or a collection callback (of
\* another wrapper) is going through it.
C12_MutualExclusion == []C12_OneInside /\ [][C12_ModifyStep]_vars

\* C12 witness: the tick is going through a list while the collection callback of a
\* wrapper in that very list is due: the callback has to wait for the lock
C12_Witness ==
    /\ tick.pc = "dispatch"
    /\ lock = "tick"
    /\ \E i \in 1..Len(CurList) : CurList[i].ref \in pendingCollect

\* the wrappers of list L at the positions in S, by position
RECURSIVE RefsAt(_, _, _)
RefsAt(L, S, n) ==
    IF n = 0 THEN <<>>
    ELSE RefsAt(L, S, n - 1) \o (IF n \in S THEN <<L[n].ref>> ELSE <<>>)

\* the queue is first in, first out: a send adds at the end, the tick takes the
\* oldest message and leaves the others as they are
C13_QueueStep ==
    messages' # messages
        => \/ /\ Len(messages') = Len(messages) + 1
              /\ SubSeq(messages', 1, Len(messages)) = messages
              /\ tick' = tick
           \/ /\ tick.pc = "loop"
              /\ messages # <<>>
              /\ messages' = Tail(messages)
              /\ tick' = [pc |-> "dispatch", cur |-> Head(messages), idx |-> 1]

\* the subscribers of a message are taken one by one from the first, and the next
\* message is taken only when the last has been passed (or an error ended the tick)
C13_ListStep ==
    (tick.pc = "dispatch" /\ tick' # tick)
        => \/ /\ tick.idx <= Len(CurList)
              /\ tick' = [tick EXCEPT !.idx = @ + 1]
           \/ /\ tick.idx <= Len(CurList)
              /\ tick' = TickIdle /\ tickResult' = "error"
           \/ /\ tick.idx = Len(CurList) + 1
              /\ tick'.pc = "loop"

\* the calls made so far for the current message are calls of subscribers already
\* passed, in the order of the list, none of them left out while alive
C13_InListOrder ==
    tick.pc = "dispatch" =>
        \E S \in SUBSET (1..(tick.idx - 1)) :
            /\ \A i \in 1..(tick.idx - 1) : alive[CurList[i].h] => i \in S
            /\ [i \in 1..Len(calls) |-> calls[i].ref] = RefsAt(CurList, S, tick.idx - 1)

\* C13: a tick takes the queued messages in the order they were enqueued, whatever
\* their topics, invokes the live subscribers of each in the order of the
\* subscriber list, and passes every subscriber of a message before it takes the
\* next message.
C13_DeliveryOrder == []C13_InListOrder /\ [][C13_QueueStep /\ C13_ListStep]_vars

\* C13 witness: two subscriptions were invoked for one message, the older first,
\* while a message enqueued later waits behind
C13_Witness ==
    /\ DeliveryComplete
    /\ Len(calls) = 2
    /\ calls[1].ref < calls[2].ref
    /\ messages # <<>>

CalledRefs == {calls[i].ref : i \in 1..Len(calls)}

\* the entries of the current list that were subscribed after the message in
\* dispatch was sent (wrappers are numbered as they are created)
LateEntries == {i \in 1..Len(CurList) : CurList[i].ref > curAt}

\* C14: the subscribers of a message are those registered when the tick drains it:
\* once the tick has gone through the list, every live handler subscribed after
\* the message was sent (and before this tick took the lock) has been invoked
\* with it.
C14_AsOfTickTime ==
    DeliveryComplete =>
        \A i \in LateEntries :
            alive[CurList[i].h] =>
                \E j \in 1..Len(calls) :
                    calls[j].ref = CurList[i].ref /\ calls[j].arg = tick.cur.arg

\* C14 witness: a handler subscribed after the send was invoked with the message
C14_Witness ==
    /\ DeliveryComplete
    /\ \E i \in LateEntries : CurList[i].ref \in CalledRefs

\* the last step of unsubscribe removes nothing and leaves with a ValueError
C15_UnsubscribeStep ==
    (mut.pc = "unsub" /\ mut'.pc = "idle")
        => (subscribers' = subscribers /\ mutResult' = "ValueError")

\* a handler that was unsubscribed while subscribed still has its entries and is
\* still invoked once per entry
C15_StillSubscribed ==
    \A p \in unsubscribed :
        /\ Count(subscribers[p[1]], p[2]) >= 1
        /\ (DeliveryComplete /\ tick.cur.topic = p[1] /\ alive[p[2]])
              => Cardinality(CallsTo(p[2])) = Count(CurList, p[2])

\* C15: unsubscribe cannot match a stored subscription: after subscribe(t, h) and
\* unsubscribe(t, h) the entry of h is still in the list of t (the only outcome of
\* unsubscribe is a ValueError), and a later message of t drained by a tick still
\* invokes h.
C15_UnsubscribeKeepsEntry == []C15_StillSubscribed /\ [][C15_UnsubscribeStep]_vars

\* C15 witness: a handler was invoked for a message of the topic it had been
\* unsubscribed from
C15_Witness ==
    /\ DeliveryComplete
    /\ \E h \in Handlers :
          /\ <<tick.cur.topic, h>> \in unsubscribed
          /\ CallsTo(h) # {}

\* the step in which a tick ends inside the for loop: the subscriber it came to is
\* alive and its handler fails; the error leaves the tick, the lock is released,
\* the queue is left as it is (the messages behind stay, in their order, and the
\* failing message, taken out before, is not put back) and so are the lists
C16_FailStep ==
    (tick.pc = "dispatch" /\ tick'.pc = "idle")
        => /\ tick.idx <= Len(CurList)
           /\ alive[CurList[tick.idx].h]
           /\ behaviour[CurList[tick.idx].h] = "raise"
           /\ tickResult' = "error"
           /\ lock' = "free"
           /\ messages' = messages
           /\ subscribers' = subscribers

\* no tick goes past a live subscriber whose handler fails, and after a tick the
\* next one can start and takes the message at the head of the queue
C16_Inv ==
    /\ tick.pc = "dispatch" =>
          \A i \in 1..(tick.idx - 1) :
              ~(alive[CurList[i].h] /\ behaviour[CurList[i].h] = "raise")
    /\ (tick.pc = "idle" /\ lock = "free") => ENABLED TickStart
    /\ (tick.pc = "loop" /\ messages # <<>>) => ENABLED TickGet

\* C16: a handler failure other than "target unavailable" leaves the tick; the lock
\* is released, the messages queued behind the failing one stay queued in their
\* order for the next tick, and the failing message is not delivered again.
C16_FailurePropagates == []C16_Inv /\ [][C16_FailStep]_vars

\* C16 witness: after a tick that a handler's failure ended, the next tick is
\* delivering a message
C16_Witness ==
    /\ tickResult = "error"
    /\ tick.pc = "dispatch"
    /\ calls # <<>>

\* a publisher thread sends
C20_SendStep == \E p \in Publishers, m \in Sendable : Send(p, m[1], m[2])

\* the handler the tick is about to call would put one more message on a queue
\* that holds MaxQueue already
C20_QueueAtBound ==
    /\ tick.pc = "dispatch"
    /\ tick.idx <= Len(subscribers[tick.cur.topic])
    /\ WeakCall(subscribers[tick.cur.topic][tick.idx], alive, behaviour) = "emit"
    /\ Len(messages) >= MaxQueue

\* C20 (as claimed): every tick-drain that starts finishes and releases the lock,
\* also when the handlers it invokes connect, disconnect or emit, and when a
\* collection callback comes while the tick holds the lock.  The publisher
\* threads are taken to stop sending at some time, and the queue to stay within
\* MaxQueue.
C20_TickFinishes ==
    \/ []<><<C20_SendStep>>_vars
    \/ (tick.pc # "idle") ~> ((tick.pc = "idle" /\ lock # "tick") \/ C20_QueueAtBound)

-----------------------------------------------------------------------------
(* Properties of _Messenger.instance() *)

\* C10 (as claimed): at most one _Messenger is ever constructed, and all the calls
\* that have returned returned the same object.
C10_Singleton ==
    /\ created <= 1
    /\ \A t, u \in Threads : (ret[t] # 0 /\ ret[u] # 0) => ret[t] = ret[u]

-----------------------------------------------------------------------------
(* Properties of the command descriptor *)

\* C4: every read of a command attribute on one instance returns the same Command
\* object, the one the descriptor holds since it was first built.
C4_SameCommand ==
    \A d \in Descriptors, i \in Instances :
        /\ Cardinality(got[d][i]) <= 1
        /\ got[d][i] # {} => got[d][i] = {cache[d]}

\* C4 witness: an instance reads the attribute again, after the read that built
\* the Command for it, and is given the Command it was given before
C4_Witness ==
    /\ lastExec.kind = "get"
    /\ ~lastExec.created
    /\ cmds[lastExec.id].obj = lastExec.via
    /\ got[lastExec.d][lastExec.via] = {lastExec.id}

\* C5 (as claimed): two instances never share a Command of one descriptor, and the
\* handler and the predicate run with the instance the Command was obtained from.
C5_PerInstance ==
    /\ \A d \in Descriptors : got[d]["A"] \cap got[d]["B"] = {}
    /\ lastExec.receiver # "none" => lastExec.receiver = lastExec.via

-----------------------------------------------------------------------------
(* Properties of Notifiable *)

\* C3: an assignment of a value equal to the current one (the stored value, or the
\* initial value when nothing is stored) writes nothing and makes no
\* RaisePropertyChanged call; an assignment of a different value stores it and
\* makes exactly one RaisePropertyChanged call, with the property's name, which
\* calls every registered handler once.
C3_NotifyOnChangeOnly ==
    lastOp.op = "set" =>
        IF PyEq(NotifiableGet(lastOp.before, lastOp.prop), lastOp.value)
        THEN /\ slots = lastOp.before
             /\ raised = <<>>
        ELSE /\ slots = [lastOp.before EXCEPT ![lastOp.prop] = lastOp.value]
             /\ Len(raised) = 1
             /\ raised[1].name = lastOp.prop
             /\ raised[1].handlers = [i \in 1..listeners |-> i]

\* C3 witness: with a handler registered and a value stored, a value that is equal
\* to the stored one without being it was assigned: nothing written, nothing raised
C3_Witness ==
    /\ lastOp.op = "set"
    /\ listeners > 0
    /\ lastOp.before[lastOp.prop] # Unset
    /\ lastOp.before[lastOp.prop] # lastOp.value
    /\ PyEq(lastOp.before[lastOp.prop], lastOp.value)
    /\ slots = lastOp.before
    /\ raised = <<>>


-----------------------------------------------------------------------------
(* Properties of the calculator *)

inputText  == NotifiableGet(slots, "inputText")
outputText == NotifiableGet(slots, "outputText")

Digit(c) == <<"addDigit", <<c>>>>
Op(c)    == <<"operator", <<c>>>>

\* C6: from the start state, addDigit('5'), operator('+'), addDigit('3'),
\* operator('=') ends with outputText equal to "8.0" and inputText empty.
C6_FivePlusThree ==
    keys = <<Digit("5"), Op("+"), Digit("3"), Op("=")>>
        => /\ outputText = PyStr(<<"8", ".", "0">>)
           /\ inputText = PyStr(<<>>)
           /\ cmdError = "none"

C6_Witness ==
    /\ keys = <<Digit("5"), Op("+"), Digit("3"), Op("=")>>
    /\ outputText = PyStr(<<"8", ".", "0">>)
    /\ outputNumber = <<8, 1>>

\* the pending operator is '/' and the input buffer holds a text whose value is zero
DividingByZero ==
    /\ prevOperator = <<"/">>
    /\ inputText.k = "str"
    /\ IsFloatText(inputText.s)
    /\ frac(inputText.s)[1] = 0

\* C7 (step): in a state where the pending operator is '/' and the input buffer
\* parses to zero, pressing an operator (one of + - x / =) raises no error and
\* leaves both inputText and outputText empty.
C7_Step ==
    (DividingByZero /\ \E p \in ArithParams : keys' = Append(keys, <<"operator", p>>))
        => /\ cmdError' = "none"
           /\ inputText' = PyStr(<<>>)
           /\ outputText' = PyStr(<<>>)

\* C7 (scenario): pressing '/', then '0', then '=' from the start state leaves
\* both buffers empty and raises nothing.
C7_Scenario ==
    keys = <<Op("/"), Digit("0"), Op("=")>>
        => /\ cmdError = "none"
           /\ inputText = PyStr(<<>>)
           /\ outputText = PyStr(<<>>)

\* C7: division by zero clears both buffers instead of raising, in every
\* reachable state and in particular after '/', '0', '='.
C7_DivisionByZeroClears == []C7_Scenario /\ [][C7_Step]_vars

\* a result was shown ("5.0"), then it was divided by zero
C7_Witness ==
    /\ keys = <<Digit("5"), Op("/"), Digit("0"), Op("+")>>
    /\ inputText = PyStr(<<>>)
    /\ outputText = PyStr(<<>>)
    /\ cmdError = "none"

\* s reads as a number: digits, then possibly a point and digits, with a digit
\* somewhere
Parseable(s) ==
    /\ \E i \in 1..Len(s) : s[i] \in DigitChars
    /\ \E k \in 0..Len(s) :
          /\ \A i \in 1..k : s[i] \in DigitChars
          /\ k < Len(s) => (s[k + 1] = "." /\ \A i \in (k + 2)..Len(s) : s[i] \in DigitChars)

\* inputText is a string, empty or one that reads as a number
C18_Inv ==
    /\ inputText.k = "str"
    /\ inputText.s = <<>> \/ Parseable(inputText.s)

\* a key that would make the buffer unreadable changes nothing, raises no error and
\* no PropertyChanged
C18_Step ==
    \A param \in DigitParams :
        (keys' = Append(keys, <<"addDigit", param>>) /\ ~Parseable(inputText.s \o param))
            => /\ slots' = slots
               /\ cmdError' = "none"
               /\ raised' = <<>>

\* C18: after any sequence of addDigitCommand and operatorCommand calls inputText
\* is empty or parseable as a number; a key that would make it unparseable leaves
\* it unchanged, raises no error and raises no PropertyChanged.
C18_InputParseable == []C18_Inv /\ [][C18_Step]_vars

\* C18 witness: a second point was typed after "5." and ignored
C18_Witness ==
    /\ keys = <<Digit("5"), Digit("."), Digit(".")>>
    /\ inputText = PyStr(<<"5", ".">>)
    /\ raised = <<>>
    /\ cmdError = "none"

-----------------------------------------------------------------------------
(* Properties of notifiable *)

FirstAccessorSet == lastOp.op = "accessor_set" /\ lastOp.before[Backing] = Unset

\* what newsetter does: the first assignment is a change for every value but None;
\* a first assignment of None, which is what the failing getter reads as, calls no
\* setter and raises nothing
FirstSetChangeUnlessNone ==
    FirstAccessorSet =>
        IF lastOp.value = PyNone
        THEN /\ slots = lastOp.before
             /\ raised = <<>>
        ELSE /\ slots = [lastOp.before EXCEPT ![Backing] = lastOp.value]
             /\ Len(raised) = 1
             /\ raised[1].name = "foo"
             /\ raised[1].handlers = [i \in 1..listeners |-> i]

\* C17 (as claimed): the first assignment through the setter, made while the
\* backing attribute does not exist, is a change for every assigned value: the
\* wrapped setter is called and exactly one notification is raised.
C17_FirstSetAlwaysChange ==
    FirstAccessorSet =>
        /\ slots[Backing] = lastOp.value
        /\ Len(raised) = 1


-----------------------------------------------------------------------------
(* Properties of List *)

\* C19 (as claimed): extend appends every item of the sequence it is given, in
\* order: after lst.extend(seq) the collection is what it was, followed by seq.
C19_ExtendAppendsAll ==
    lastList.op = "extend" => coll = lastList.before \o lastList.seq

=============================================================================
